---- MODULE Spec2Model ----
(***************************************************************************)
(* Model of extensions/amazon-aws/src/s3.tsx: the paginated object listing *)
(* (fetchBucketObjects), the object view built on it (S3BucketObjects),    *)
(* the Download action of an object row, and the size formatter            *)
(* (humanFileSize).                                                        *)
(*                                                                         *)
(* Three specifications share the variables:                               *)
(*   Spec          two object views listing buckets concurrently           *)
(*   SpecDownload  two Download submissions running concurrently           *)
(*   SpecSize      humanFileSize applied to one byte count                 *)
(***************************************************************************)
EXTENDS Integers, Sequences, FiniteSets, TLC

VARIABLES
    \* ---- the storage service (the environment of the listing) ----
    bucketPages,   \* bucket -> the pages its listing is served as (stable store)
    net,           \* ListObjectsCommand requests sent and not yet answered
    \* ---- one fetchBucketObjects invocation chain per object view ----
    pc,            \* view -> "idle" | "awaiting" | "resolved" | "rejected"
    bucketArg,     \* view -> the `bucket` parameter
    nextMarker,    \* view -> the `nextMarker` parameter of the current call
    objects,       \* view -> the `objects` parameter of the current call
    \* ---- useCachedPromise's result per view ----
    data,          \* view -> optional object list
    error,         \* view -> optional error
    \* ---- observations at the S3Client boundary (history) ----
    calls,         \* view -> the requests sent, in order
    responses,     \* view -> the successful responses received, in order
    failed,        \* view -> the error its send rejected with (optional)
    overlap,       \* a request was sent while the other view's was in flight
    \* ---- the Download action (one record per submission) ----
    dl,
    \* ---- humanFileSize ----
    bytes,         \* the argument
    sizeText       \* the returned text (optional)

listVars == <<bucketPages, net, pc, bucketArg, nextMarker, objects, data, error,
              calls, responses, failed, overlap>>
sizeVars == <<bytes, sizeText>>
vars == <<bucketPages, net, pc, bucketArg, nextMarker, objects, data, error,
          calls, responses, failed, overlap, dl, bytes, sizeText>>

(***************************************************************************)
(* Bounds and domains                                                      *)
(***************************************************************************)
\* The largest number of pages a bucket's listing is served as.
MaxPages == 2

Views == {"v1", "v2"}
Buckets == {"A", "B"}

\* What one page can hold. Keys repeat across pages and arrive out of key
\* order, so deduplication or sorting by the client would show.
PageChoices == {<<>>, <<"k2">>, <<"k2", "k1">>}

RECURSIVE SeqsUpTo(_, _)
SeqsUpTo(S, n) ==
    IF n = 0 THEN {<<>>}
    ELSE LET shorter == SeqsUpTo(S, n - 1)
         IN  shorter \cup {Append(s, x) : s \in {t \in shorter : Len(t) = n - 1}, x \in S}

PageLists == {ps \in SeqsUpTo(PageChoices, MaxPages) : Len(ps) >= 1}

(***************************************************************************)
(* Optional values of the source (`x?: T`, `T | undefined`)                *)
(***************************************************************************)
\* A marker is the pair <<bucket, page index>>; the absent marker (undefined)
\* is the pair below, the only falsy one.
NoMarker == <<"", 0>>
Undefined == [present |-> FALSE, items |-> <<>>]
Some(items) == [present |-> TRUE, items |-> items]
NoError == [present |-> FALSE, s3 |-> FALSE, name |-> "", message |-> "", Bucket |-> ""]

(***************************************************************************)
(* The storage service                                                     *)
(***************************************************************************)
\* The page a request asks for: the first without a marker, else the one
\* after the page that handed the marker out.
PageIndex(req) == IF req.Marker = NoMarker THEN 1 ELSE req.Marker[2] + 1

\* The service's answer to ListObjects: Contents is left out of an empty
\* page, NextMarker is present exactly when a further page exists.
ListObjectsOutput(req) ==
    LET pages == bucketPages[req.Bucket]
        k == PageIndex(req)
    IN  [Contents |-> IF pages[k] = <<>> THEN Undefined ELSE Some(pages[k]),
         NextMarker |-> IF k < Len(pages) THEN <<req.Bucket, k>> ELSE NoMarker]

\* What a send can reject with.
SendErrors(bucket) ==
    { [present |-> TRUE, s3 |-> TRUE, name |-> "PermanentRedirect",
       message |-> "The bucket must be addressed using the specified endpoint",
       Bucket |-> bucket],
      [present |-> TRUE, s3 |-> TRUE, name |-> "AccessDenied",
       message |-> "Access Denied", Bucket |-> ""],
      [present |-> TRUE, s3 |-> FALSE, name |-> "PermanentRedirect",
       message |-> "proxy redirect", Bucket |-> ""],
      [present |-> TRUE, s3 |-> FALSE, name |-> "TimeoutError",
       message |-> "socket hang up", Bucket |-> ""] }

(***************************************************************************)
(* fetchBucketObjects                                                      *)
(***************************************************************************)
\* `Contents || []`
OrEmpty(Contents) == IF Contents.present THEN Contents.items ELSE <<>>

\* `if (NextMarker)`
Truthy(marker) == marker # NoMarker

\* Variant: the accumulator is left out of the spread.
combinedObjectsNoAccumulator(v, Contents) == OrEmpty(Contents)

\* Variant: the invocations append to one accumulator.
combinedObjectsShared(v, Contents) ==
    LET other == CHOOSE w \in Views : w # v
    IN  objects[other] \o objects[v] \o OrEmpty(Contents)

\* `const combinedObjects = [...objects, ...(Contents || [])]`
combinedObjects(v, Contents) == objects[v] \o OrEmpty(Contents)

\* Variant: the call's own marker is passed on.
RecursiveMarkerStale(v, NextMarker) == nextMarker[v]

\* The marker argument of the recursive call.
RecursiveMarker(v, NextMarker) == NextMarker

\* `new ListObjectsCommand({ Bucket: bucket, Marker: nextMarker })`
ListObjectsCommand(v, bucket, marker) == [view |-> v, Bucket |-> bucket, Marker |-> marker]

\* `new S3Client({}).send(...)`: the request joins those in flight (`others`
\* are the requests still unanswered).
Send(v, others, bucket, marker) ==
    /\ net' = others \cup {ListObjectsCommand(v, bucket, marker)}
    /\ calls' = [calls EXCEPT ![v] = Append(@, [Bucket |-> bucket, Marker |-> marker])]
    /\ overlap' = (overlap \/ \E r \in others : r.view # v)

\* The view is pushed: useCachedPromise calls fetchBucketObjects(bucket.Name)
\* with `nextMarker` undefined and `objects` defaulted to [].
Start(v, bucket) ==
    /\ pc[v] = "idle"
    /\ pc' = [pc EXCEPT ![v] = "awaiting"]
    /\ bucketArg' = [bucketArg EXCEPT ![v] = bucket]
    /\ nextMarker' = [nextMarker EXCEPT ![v] = NoMarker]
    /\ objects' = [objects EXCEPT ![v] = <<>>]
    /\ Send(v, net, bucket, NoMarker)
    /\ UNCHANGED <<bucketPages, data, error, responses, failed, dl, sizeVars>>

\* Lines 134-140, run when the awaited send has resolved with `out`: combine,
\* then recurse with the marker or return.
Combine(v, req, out) ==
    LET combined == combinedObjects(v, out.Contents)
    IN  /\ responses' = [responses EXCEPT ![v] = Append(@, out)]
        /\ IF Truthy(out.NextMarker)
           THEN /\ nextMarker' = [nextMarker EXCEPT ![v] =
                                     RecursiveMarker(v, out.NextMarker)]
                /\ objects' = [objects EXCEPT ![v] = combined]
                /\ Send(v, net \ {req}, bucketArg[v], nextMarker'[v])
                /\ UNCHANGED <<pc, data, error>>
           ELSE /\ net' = net \ {req}
                /\ pc' = [pc EXCEPT ![v] = "resolved"]
                /\ data' = [data EXCEPT ![v] = Some(combined)]
                /\ error' = [error EXCEPT ![v] = NoError]
                /\ UNCHANGED <<nextMarker, objects, calls, overlap>>
        /\ UNCHANGED <<bucketPages, bucketArg, failed, dl, sizeVars>>

\* The promise rejects with `err`: useCachedPromise keeps it as `error`.
Reject(v, req, err) ==
    /\ net' = net \ {req}
    /\ pc' = [pc EXCEPT ![v] = "rejected"]
    /\ error' = [error EXCEPT ![v] = err]
    /\ UNCHANGED <<bucketPages, bucketArg, nextMarker, objects, data, calls,
                   overlap, dl, sizeVars>>

\* What spreading `undefined` throws.
TypeErrorNotIterable ==
    [present |-> TRUE, s3 |-> FALSE, name |-> "TypeError",
     message |-> "Contents is not iterable", Bucket |-> ""]

\* Variant: `...Contents` without `|| []`.
ReceivePageNoDefault(v) ==
    \E req \in net :
        /\ req.view = v
        /\ LET out == ListObjectsOutput(req)
           IN  IF out.Contents.present
               THEN Combine(v, req, out)
               ELSE /\ Reject(v, req, TypeErrorNotIterable)
                    /\ responses' = [responses EXCEPT ![v] = Append(@, out)]
                    /\ UNCHANGED failed

\* The awaited send of the view's call resolves: lines 130-140.
ReceivePage(v) ==
    \E req \in net :
        /\ req.view = v
        /\ Combine(v, req, ListObjectsOutput(req))

\* Variant: the rejection is caught and the accumulator returned.
ReceiveErrorPartial(v, err) ==
    \E req \in net :
        /\ req.view = v
        /\ net' = net \ {req}
        /\ failed' = [failed EXCEPT ![v] = err]
        /\ pc' = [pc EXCEPT ![v] = "resolved"]
        /\ data' = [data EXCEPT ![v] = Some(objects[v])]
        /\ UNCHANGED <<bucketPages, bucketArg, nextMarker, objects, error, calls,
                       responses, overlap, dl, sizeVars>>

\* The awaited send rejects: nothing in fetchBucketObjects catches, so every
\* enclosing call's promise rejects with the same error.
ReceiveError(v, err) ==
    \E req \in net :
        /\ req.view = v
        /\ failed' = [failed EXCEPT ![v] = err]
        /\ Reject(v, req, err)
        /\ UNCHANGED responses

(***************************************************************************)
(* S3BucketObjects: what the view renders                                  *)
(***************************************************************************)
\* Variant: the name alone is tested.
isPermanentRedirectErrorByName(err) == err.present /\ err.name = "PermanentRedirect"

\* `err instanceof S3ServiceException && err.name === "PermanentRedirect"`
isPermanentRedirectError(err) == err.present /\ err.s3 /\ err.name = "PermanentRedirect"

ConsoleBucketUrl(bucket) == <<"https://s3.console.aws.amazon.com/s3/buckets/", bucket>>

\* The children of <List>, lines 60-118.
Render(v) ==
    IF isPermanentRedirectError(error[v])
    THEN [kind |-> "RegionMismatch", title |-> "Wrong region for bucket.",
          description |-> error[v].Bucket,
          actions |-> <<[title |-> "Open in Browser", url |-> ConsoleBucketUrl(bucketArg[v])]>>,
          rows |-> <<>>]
    ELSE IF error[v].present
    THEN [kind |-> "Error", title |-> error[v].name,
          description |-> error[v].message, actions |-> <<>>, rows |-> <<>>]
    ELSE [kind |-> "Objects", title |-> "", description |-> "", actions |-> <<>>,
          rows |-> OrEmpty(data[v])]

(***************************************************************************)
(* humanFileSize                                                           *)
(*                                                                         *)
(* A number is kept exactly, in base `threshold`: `int` holds the limbs    *)
(* (0..999) of its integer part, most significant first and without a      *)
(* leading zero, `frac` the limbs of its fraction. 1500000 is              *)
(* <<1, 500, 0>>, 1.5 is int <<1>>, frac <<500>>. The arithmetic is exact: *)
(* the rounding error of the code's doubles (2^-53, relative, per          *)
(* division) is not modelled.                                              *)
(***************************************************************************)
\* `const threshold = 1000`
threshold == 1000

\* `const r = 10`
r == 10

\* `const units = [...]`
units == <<"kB", "MB", "GB", "TB", "PB", "EB", "ZB", "YB">>

Zero == [neg |-> FALSE, int |-> <<>>, frac |-> <<>>]
NoText == [present |-> FALSE, neg |-> FALSE, digits |-> <<>>, unit |-> ""]

Front(s) == SubSeq(s, 1, Len(s) - 1)
Last(s) == s[Len(s)]

\* The integer after the one the limbs denote.
RECURSIVE LimbSucc(_)
LimbSucc(limbs) ==
    IF limbs = <<>> THEN <<1>>
    ELSE IF Last(limbs) < threshold - 1 THEN Append(Front(limbs), Last(limbs) + 1)
    ELSE Append(LimbSucc(Front(limbs)), 0)

\* The first limb of the fraction (0 when there is none).
FirstFrac(x) == IF x.frac = <<>> THEN 0 ELSE x.frac[1]

\* `Math.abs(bytes)`
MathAbs(x) == [x EXCEPT !.neg = FALSE]

\* `Math.abs(bytes) < threshold`: the integer part is a single limb at most.
BelowThreshold(x) == Len(x.int) <= 1

\* `bytes /= threshold`: the lowest integer limb becomes the first of the
\* fraction.
DivideByThreshold(x) ==
    IF x.int = <<>>
    THEN [x EXCEPT !.frac = <<0>> \o @]
    ELSE [x EXCEPT !.int = Front(@), !.frac = <<Last(x.int)>> \o @]

\* `Math.round(a * r)` for 0 <= a < threshold: floor(a * r + 1/2), which the
\* integer limb and the first fraction limb decide.
MathRoundTimesR(a) ==
    (IF a.int = <<>> THEN 0 ELSE a.int[1]) * r
        + (2 * FirstFrac(a) * r + threshold) \div (2 * threshold)

\* `Math.round(a * r) / r >= threshold`. Rounding is monotonic: a negative
\* number stays below, a number of two integer limbs or more stays at or
\* above.
RoundedAtLeastThreshold(a) ==
    IF a.neg /\ (a.int # <<>> \/ a.frac # <<>>) THEN FALSE
    ELSE IF Len(a.int) >= 2 THEN TRUE
    ELSE MathRoundTimesR(a) >= threshold * r

\* Variant: the test without Math.abs.
LoopTestNoAbs(x, u) == RoundedAtLeastThreshold(x) /\ u < Len(units) - 1

\* Variant: the test without the rounding to one decimal place.
LoopTestNoRounding(x, u) == ~BelowThreshold(MathAbs(x)) /\ u < Len(units) - 1

\* `Math.round(Math.abs(bytes) * r) / r >= threshold && u < units.length - 1`
LoopTest(x, u) == RoundedAtLeastThreshold(MathAbs(x)) /\ u < Len(units) - 1

\* The do-while loop, entered with `bytes` = x and `u`.
RECURSIVE DoWhile(_, _)
DoWhile(x, u) ==
    LET b == DivideByThreshold(x)
        u1 == u + 1
    IN  IF LoopTest(b, u1) THEN DoWhile(b, u1) ELSE [bytes |-> b, u |-> u1]

\* All fraction limbs after the first are zero.
RestIsZero(x) == \A i \in 2..Len(x.frac) : x.frac[i] = 0

\* Variant: Math.round(bytes) in place of toFixed: a tie goes up, not away
\* from zero.
toFixedAsMathRound(x) ==
    [neg |-> x.neg,
     digits |-> IF 2 * FirstFrac(x) > threshold
                   \/ (2 * FirstFrac(x) = threshold /\ ~(x.neg /\ RestIsZero(x)))
                THEN LimbSucc(x.int) ELSE x.int]

\* `bytes.toFixed()`: the sign, then the integer nearest the magnitude, the
\* larger one on a tie.
toFixed(x) ==
    [neg |-> x.neg,
     digits |-> IF 2 * FirstFrac(x) >= threshold THEN LimbSucc(x.int) ELSE x.int]

\* `bytes + " B"` for an integer
NumberToString(x) == [neg |-> x.neg, digits |-> x.int]

humanFileSize(b) ==
    IF BelowThreshold(MathAbs(b))
    THEN [present |-> TRUE, neg |-> NumberToString(b).neg,
          digits |-> NumberToString(b).digits, unit |-> "B"]
    ELSE LET e == DoWhile(b, -1)
         IN  [present |-> TRUE, neg |-> toFixed(e.bytes).neg,
              digits |-> toFixed(e.bytes).digits, unit |-> units[e.u + 1]]

\* The accessory text of an object row is computed.
FormatSize ==
    /\ ~sizeText.present
    /\ sizeText' = humanFileSize(bytes)
    /\ UNCHANGED <<listVars, dl, bytes>>

(***************************************************************************)
(* The Download action of an object row                                    *)
(***************************************************************************)
\* How many chunks the body of a downloaded object arrives in.
NumChunks == 2

Downloads == {"d1", "d2"}

\* Object keys, as their "/"-separated segments: "file.txt", "dir/file.txt"
\* and the folder placeholder "dir/".
ObjectKeys == {<<"file.txt">>, <<"dir", "file.txt">>, <<"dir", "">>}

NoToast == [style |-> "", title |-> ""]
DlIdle == [pc |-> "idle", key |-> <<>>, toast |-> NoToast, stream |-> "none", written |-> 0]

\* `object.Key?.split("/").pop()`
FileName(key) == key[Len(key)]

\* onSubmit starts: `showToast(...)` is awaited.
Submit(d, key) ==
    /\ dl[d].pc = "idle"
    /\ dl' = [dl EXCEPT ![d] = [@ EXCEPT !.pc = "showToast", !.key = key]]
    /\ UNCHANGED <<listVars, sizeVars>>

\* The toast is up; GetObjectCommand is sent and awaited.
ToastShown(d) ==
    /\ dl[d].pc = "showToast"
    /\ dl' = [dl EXCEPT ![d] = [@ EXCEPT !.pc = "getObject",
                 !.toast = [style |-> "Animated", title |-> "Downloading..."]]]
    /\ UNCHANGED <<listVars, sizeVars>>

\* Lines 104-105
ToastSuccess == [style |-> "Success", title |-> "Downloaded to Downloads folder"]
\* Lines 107-108
ToastFailure == [style |-> "Failure", title |-> "Failed to download"]

\* The send rejects: the catch block runs.
GetObjectRejects(d) ==
    /\ dl[d].pc = "getObject"
    /\ dl' = [dl EXCEPT ![d] = [@ EXCEPT !.pc = "returned", !.toast = ToastFailure]]
    /\ UNCHANGED <<listVars, sizeVars>>

\* The send resolves. A Readable body is piped into the write stream and the
\* toast is set to success at once, pipe() returning before anything is
\* written; any other body throws into the catch block.
GetObjectResolves(d, bodyIsReadable) ==
    /\ dl[d].pc = "getObject"
    /\ dl' = [dl EXCEPT ![d] =
                 IF bodyIsReadable
                 THEN [@ EXCEPT !.pc = "returned", !.stream = "flowing",
                                !.toast = ToastSuccess]
                 ELSE [@ EXCEPT !.pc = "returned", !.toast = ToastFailure]]
    /\ UNCHANGED <<listVars, sizeVars>>

\* A chunk of the body reaches the file. The file cannot be opened when the
\* name is empty: the path is then the Downloads directory itself.
WriteChunk(d) ==
    /\ dl[d].stream = "flowing"
    /\ FileName(dl[d].key) # ""
    /\ dl[d].written < NumChunks
    /\ dl' = [dl EXCEPT ![d] = [@ EXCEPT !.written = @ + 1]]
    /\ UNCHANGED <<listVars, sizeVars>>

\* The body ended and the file is complete.
StreamFinish(d) ==
    /\ dl[d].stream = "flowing"
    /\ dl[d].written = NumChunks
    /\ dl' = [dl EXCEPT ![d] = [@ EXCEPT !.stream = "finished"]]
    /\ UNCHANGED <<listVars, sizeVars>>

\* The body or the file emits 'error' (connection reset, EISDIR, ENOSPC):
\* no listener is attached and the handler has returned, so the toast stays.
StreamError(d) ==
    /\ dl[d].stream = "flowing"
    /\ dl' = [dl EXCEPT ![d] = [@ EXCEPT !.stream = "errored"]]
    /\ UNCHANGED <<listVars, sizeVars>>

(***************************************************************************)
(* Specification of the listing                                            *)
(***************************************************************************)
Init ==
    /\ bucketPages \in [Buckets -> PageLists]
    /\ net = {}
    /\ pc = [v \in Views |-> "idle"]
    /\ bucketArg = [v \in Views |-> ""]
    /\ nextMarker = [v \in Views |-> NoMarker]
    /\ objects = [v \in Views |-> <<>>]
    /\ data = [v \in Views |-> Undefined]
    /\ error = [v \in Views |-> NoError]
    /\ calls = [v \in Views |-> <<>>]
    /\ responses = [v \in Views |-> <<>>]
    /\ failed = [v \in Views |-> NoError]
    /\ overlap = FALSE
    /\ dl = [d \in Downloads |-> DlIdle]
    /\ bytes = Zero
    /\ sizeText = NoText

Next ==
    \/ \E v \in Views, b \in Buckets : Start(v, b)
    \/ \E v \in Views : ReceivePage(v)
    \/ \E v \in Views : \E err \in SendErrors(bucketArg[v]) : ReceiveError(v, err)

Spec == Init /\ [][Next]_vars

\* View v1 has listed bucket A, served as one page, and shows its rows; view
\* v2 is not pushed. (A state Spec reaches.)
RowsShown ==
    /\ bucketPages = [b \in Buckets |-> << <<"k2", "k1">> >>]
    /\ net = {}
    /\ pc = [v \in Views |-> IF v = "v1" THEN "resolved" ELSE "idle"]
    /\ bucketArg = [v \in Views |-> IF v = "v1" THEN "A" ELSE ""]
    /\ nextMarker = [v \in Views |-> NoMarker]
    /\ objects = [v \in Views |-> <<>>]
    /\ data = [v \in Views |-> IF v = "v1" THEN Some(<<"k2", "k1">>) ELSE Undefined]
    /\ error = [v \in Views |-> NoError]
    /\ calls = [v \in Views |->
                  IF v = "v1" THEN <<[Bucket |-> "A", Marker |-> NoMarker]>> ELSE <<>>]
    /\ responses = [v \in Views |->
                  IF v = "v1"
                  THEN <<[Contents |-> Some(<<"k2", "k1">>), NextMarker |-> NoMarker]>>
                  ELSE <<>>]
    /\ failed = [v \in Views |-> NoError]
    /\ overlap = FALSE

(***************************************************************************)
(* Specification of the Download action                                    *)
(***************************************************************************)
\* An object view shows its rows (their keys stand for the ObjectKeys below);
\* no Download was submitted yet.
InitDownload ==
    /\ RowsShown
    /\ dl = [d \in Downloads |-> DlIdle]
    /\ bytes = Zero
    /\ sizeText = NoText

NextDownload ==
    \/ \E d \in Downloads, key \in ObjectKeys : Submit(d, key)
    \/ \E d \in Downloads : ToastShown(d)
    \/ \E d \in Downloads : GetObjectRejects(d)
    \/ \E d \in Downloads, readable \in BOOLEAN : GetObjectResolves(d, readable)
    \/ \E d \in Downloads : WriteChunk(d)
    \/ \E d \in Downloads : StreamFinish(d)
    \/ \E d \in Downloads : StreamError(d)

SpecDownload == InitDownload /\ [][NextDownload]_vars

(***************************************************************************)
(* Specification of the size formatter                                     *)
(***************************************************************************)
\* How many low limbs follow the leading ones of a byte count.
MaxTail == 7

\* Limbs on either side of every test the formatter makes.
LimbVals == {0, 1, 499, 500, 949, 950, 999}

Heads == {h \in SeqsUpTo(LimbVals, 3) : h = <<>> \/ h[1] # 0}

LowLimbs(n, filler) == [i \in 1..n |-> filler]

\* Integer byte counts: zero, and both signs of every other magnitude.
SizeInputs ==
    {[neg |-> s, int |-> h \o LowLimbs(n, f), frac |-> <<>>] :
        s \in BOOLEAN, h \in Heads \ {<<>>}, n \in 0..MaxTail, f \in {0, 999}}
    \cup {Zero}

InitSize ==
    /\ RowsShown
    /\ dl = [d \in Downloads |-> DlIdle]
    /\ bytes \in SizeInputs
    /\ sizeText = NoText

NextSize == FormatSize

SpecSize == InitSize /\ [][NextSize]_vars

(***************************************************************************)
(* Properties of the listing (under Spec)                                  *)
(***************************************************************************)
RECURSIVE Flatten(_)
Flatten(pages) ==
    IF pages = <<>> THEN <<>> ELSE pages[1] \o Flatten(SubSeq(pages, 2, Len(pages)))

RECURSIVE SumLen(_)
SumLen(pages) ==
    IF pages = <<>> THEN 0 ELSE Len(pages[1]) + SumLen(SubSeq(pages, 2, Len(pages)))

\* The contents of the responses a view received, in arrival order.
Received(v) == Flatten([k \in 1..Len(responses[v]) |->
                  IF responses[v][k].Contents.present
                  THEN responses[v][k].Contents.items ELSE <<>>])

InFlight(v) == {req \in net : req.view = v}

\* C1: a listing that returns, returns page1 \o ... \o pageN of its bucket:
\* every object of every page, in page order and within-page order, nothing
\* dropped, deduplicated or sorted, its length the sum of the page sizes.
C1_ResultIsConcatenationOfPages ==
    \A v \in Views :
        pc[v] = "resolved" =>
            /\ data[v].present
            /\ data[v].items = Flatten(bucketPages[bucketArg[v]])
            /\ Len(data[v].items) = SumLen(bucketPages[bucketArg[v]])

\* A listing of several pages returned, with a key that two pages hold and
\* keys out of order.
C1_Witness ==
    \E v \in Views :
        /\ pc[v] = "resolved"
        /\ Len(bucketPages[bucketArg[v]]) >= 2
        /\ data[v].items = <<"k2", "k1", "k2">>

\* C2: a listing of N pages sends N requests: the first without a marker,
\* request k+1 with the marker of response k and only once response k is
\* in, never two in flight, and none after a response without a marker.
C2_SequentialMarkerChain ==
    \A v \in Views :
        /\ Cardinality(InFlight(v)) <= 1
        /\ Len(calls[v]) =
              Len(responses[v]) + Cardinality(InFlight(v))
                 + (IF failed[v].present THEN 1 ELSE 0)
        /\ calls[v] # <<>> => calls[v][1].Marker = NoMarker
        /\ \A k \in 1..Len(calls[v]) : calls[v][k].Bucket = bucketArg[v]
        /\ \A k \in 2..Len(calls[v]) :
              /\ calls[v][k].Marker = responses[v][k - 1].NextMarker
              /\ calls[v][k].Marker # NoMarker
        /\ \A k \in 1..Len(responses[v]) :
              responses[v][k].NextMarker = NoMarker => Len(calls[v]) = k
        /\ pc[v] = "resolved" => Len(calls[v]) = Len(bucketPages[bucketArg[v]])

\* A listing of two pages or more returned.
C2_Witness ==
    \E v \in Views :
        /\ pc[v] = "resolved"
        /\ Len(calls[v]) >= 2
        /\ Len(calls[v]) = Len(bucketPages[bucketArg[v]])

\* C3: when the request for a page fails, the listing fails with that
\* error: the caller gets no objects, those of the earlier pages included,
\* no further page is requested, and the view shows an error view and no
\* object row.
C3_FailureExposesNothing ==
    \A v \in Views :
        failed[v].present =>
            /\ pc[v] = "rejected"
            /\ error[v] = failed[v]
            /\ ~data[v].present
            /\ InFlight(v) = {}
            /\ Len(calls[v]) = Len(responses[v]) + 1
            /\ Render(v).kind \in {"RegionMismatch", "Error"}
            /\ Render(v).rows = <<>>

\* The request for a later page failed, with objects of earlier pages
\* already accumulated.
C3_Witness ==
    \E v \in Views :
        /\ failed[v].present
        /\ Len(responses[v]) >= 1
        /\ objects[v] # <<>>

\* C4: a failure shows the region-mismatch view, with the bucket's name and
\* the open-in-browser action, exactly when the error is a storage-service
\* exception named PermanentRedirect; every other failure shows the generic
\* view with the error's name and message; a listing that returned shows
\* the object rows. A view is one of the three.
C4_RegionMismatchClassification ==
    \A v \in Views :
        /\ failed[v].present =>
              IF failed[v].s3 /\ failed[v].name = "PermanentRedirect"
              THEN /\ Render(v).kind = "RegionMismatch"
                   /\ Render(v).description = bucketArg[v]
                   /\ Render(v).actions =
                         <<[title |-> "Open in Browser",
                            url |-> <<"https://s3.console.aws.amazon.com/s3/buckets/",
                                      bucketArg[v]>>]>>
              ELSE /\ Render(v).kind = "Error"
                   /\ Render(v).title = failed[v].name
                   /\ Render(v).description = failed[v].message
                   /\ Render(v).actions = <<>>
        /\ ~failed[v].present => Render(v).kind = "Objects"
        /\ Render(v).kind \in {"RegionMismatch", "Error", "Objects"}
        /\ Render(v).kind # "Objects" => Render(v).rows = <<>>
        /\ pc[v] = "resolved" => Render(v).rows = data[v].items

\* One view shows the region mismatch, the other the generic view for an
\* error that has the name but is no storage-service exception.
C4_Witness ==
    \E v, w \in Views :
        /\ Render(v).kind = "RegionMismatch"
        /\ failed[w].present /\ ~failed[w].s3 /\ failed[w].name = "PermanentRedirect"
        /\ Render(w).kind = "Error"

\* C7: however two listings interleave, each one's accumulator and result
\* are the contents of the responses to its own requests, in order, and
\* each of its markers is the one its own previous response carried.
C7_ListingsAreIndependent ==
    \A v \in Views :
        /\ pc[v] = "awaiting" => objects[v] = Received(v)
        /\ pc[v] = "resolved" => data[v].items = Received(v)
        /\ \A k \in 1..Len(calls[v]) :
              /\ calls[v][k].Bucket = bucketArg[v]
              /\ calls[v][k].Marker \in {NoMarker} \cup
                    {<<bucketArg[v], j>> : j \in 1..Len(bucketPages[bucketArg[v]])}
        /\ \A k \in 2..Len(calls[v]) :
              calls[v][k].Marker = responses[v][k - 1].NextMarker

\* Two listings of different buckets ran with requests in flight at the
\* same time, and both returned objects.
C7_Witness ==
    /\ overlap
    /\ \A v \in Views : pc[v] = "resolved" /\ data[v].items # <<>>
    /\ \E v, w \in Views : bucketArg[v] # bucketArg[w]
    /\ \E v \in Views : Len(calls[v]) >= 2

\* C8: a listing whose single response carries neither contents nor a
\* marker returns the empty sequence, with no error, after one request.
C8_EmptyBucket ==
    \A v \in Views :
        (/\ Len(responses[v]) >= 1
         /\ ~responses[v][1].Contents.present
         /\ responses[v][1].NextMarker = NoMarker) =>
            /\ pc[v] = "resolved"
            /\ data[v] = Some(<<>>)
            /\ ~error[v].present
            /\ Len(calls[v]) = 1
            /\ Render(v).kind = "Objects"
            /\ Render(v).rows = <<>>

\* The listing of a bucket served as one empty page returned.
C8_Witness ==
    \E v \in Views :
        /\ pc[v] = "resolved"
        /\ bucketPages[bucketArg[v]] = << <<>> >>
        /\ Len(responses[v]) = 1

(***************************************************************************)
(* Property of the Download action (under SpecDownload)                    *)
(***************************************************************************)
\* Nothing more will happen to the download.
Settled(d) == dl[d].pc = "returned" /\ dl[d].stream # "flowing"

\* C5: a download that has come to its end shows the failure toast when the
\* get-object call failed, the body was no stream or the streaming or the
\* writing failed, and the success toast only when the file is written.
C5_EveryFailureReported ==
    \A d \in Downloads :
        Settled(d) =>
            /\ dl[d].stream = "finished" <=> dl[d].toast = ToastSuccess
            /\ dl[d].stream # "finished" <=> dl[d].toast = ToastFailure

(***************************************************************************)
(* Properties of humanFileSize (under SpecSize)                            *)
(***************************************************************************)
\* The integer part of |n| / 1000^k, as limbs.
IntPartAfter(n, k) == SubSeq(n.int, 1, Len(n.int) - k)

\* floor(1000 * frac(|n| / 1000^k)), for k >= 1.
ThousandthsAfter(n, k) == IF k <= Len(n.int) THEN n.int[Len(n.int) - k + 1] ELSE 0

\* |n| / 1000^k, rounded to one decimal place, is below 1000: the value is
\* below 999.95.
RoundsBelowThousand(n, k) ==
    \/ Len(n.int) < k + 1
    \/ /\ Len(n.int) = k + 1
       /\ 1000 * n.int[1] + ThousandthsAfter(n, k) < 999950

\* The unit of the stated rule: the first that qualifies, or the last.
SelectedUnit(n) ==
    IF \E k \in 1..8 : RoundsBelowThousand(n, k)
    THEN CHOOSE k \in 1..8 :
            /\ RoundsBelowThousand(n, k)
            /\ \A j \in 1..(k - 1) : ~RoundsBelowThousand(n, j)
    ELSE 8

\* |n| / 1000^k rounded to the nearest integer, as limbs.
NearestInteger(n, k) ==
    IF ThousandthsAfter(n, k) >= 500
    THEN LimbSucc(IntPartAfter(n, k)) ELSE IntPartAfter(n, k)

UnitNames == <<"kB", "MB", "GB", "TB", "PB", "EB", "ZB", "YB">>

\* C6: for |bytes| >= 1000 the unit is the first of kB..YB at which the
\* divided value, rounded to one decimal place, is below 1000 in magnitude,
\* YB when none is; the text is that value rounded to the nearest integer,
\* a space and the unit.
C6_UnitSelection ==
    (sizeText.present /\ Len(bytes.int) >= 2) =>
        LET k == SelectedUnit(bytes)
        IN  /\ sizeText.unit = UnitNames[k]
            /\ sizeText.digits = NearestInteger(bytes, k)
            /\ sizeText.neg = bytes.neg

\* 999950 was formatted as "1 MB", and a count past 1000 YB as YB.
C6_Witness ==
    /\ sizeText.present
    /\ \/ bytes.int = <<999, 950>> /\ sizeText.unit = "MB" /\ sizeText.digits = <<1>>
       \/ Len(bytes.int) >= 10 /\ sizeText.unit = "YB" /\ Len(sizeText.digits) >= 2

\* C9: the text of a negative count is "-" followed by the text of its
\* magnitude: same unit, same digits.
C9_NegativeSymmetry ==
    (sizeText.present /\ bytes.neg) =>
        LET positive == humanFileSize([bytes EXCEPT !.neg = FALSE])
        IN  /\ sizeText.neg
            /\ ~positive.neg
            /\ sizeText.digits = positive.digits
            /\ sizeText.unit = positive.unit

\* -1500 was formatted: the magnitude 1.5 is a tie, rendered "-2 kB".
C9_Witness ==
    /\ sizeText.present
    /\ bytes.neg
    /\ bytes.int = <<1, 500>>
    /\ sizeText.digits = <<2>>
    /\ sizeText.unit = "kB"

\* C10: for |bytes| >= 1000 and a unit other than YB, the integer rendered
\* is between 1 and 1000 in magnitude.
C10_RenderedMagnitudeRange ==
    (sizeText.present /\ Len(bytes.int) >= 2 /\ sizeText.unit # "YB") =>
        \/ Len(sizeText.digits) = 1 /\ sizeText.digits[1] >= 1
        \/ sizeText.digits = <<1, 0>>

\* 999500 was formatted as "1000 kB".
C10_Witness ==
    /\ sizeText.present
    /\ bytes.int = <<999, 500>>
    /\ sizeText.digits = <<1, 0>>
    /\ sizeText.unit = "kB"

====
